---- MODULE Spec2Model ----
(***************************************************************************)
(* Plugin registry and hot-reload engine of OIB: PluginManager and the     *)
(* ConfigFileHandler of src/plugin_manager.py, with the PluginBase hooks   *)
(* of src/plugin_base.py.                                                  *)
(*                                                                         *)
(* Lifecycle operations are coroutines.  A coroutine runs without          *)
(* interruption from one awaited hook to the next, so every action below   *)
(* is one such segment: from the start of an operation, or from the return *)
(* of a hook, up to the next hook call or the operation's return.  A hook  *)
(* is plugin code: it may suspend, and it ends by returning True,          *)
(* returning False or raising.  The watchdog observer thread dispatches    *)
(* file events one at a time and runs reload_plugin to completion with     *)
(* asyncio.run before it takes the next event.                             *)
(***************************************************************************)
EXTENDS Integers, Sequences, FiniteSets, TLC

\* ------------------------------------------------------------------ bounds
MaxInst == 3        \* plugin objects that exist at the same time
MaxTime == 1        \* the clock stops at this many seconds
MaxInputs == 2      \* registry calls and file writes after the start-up
MaxVal == 2         \* distinct values a config key takes
MaxEvents == 3      \* file events of a run that only writes files

\* ------------------------------------------------------------------ constants
DebounceWindow == 1 \* seconds, plugin_manager.py line 30

Plugins == {"p1", "p2"}
Callers == {"c1", "c2"}
Watcher == "w"
Procs == Callers \cup {Watcher}
Keys == {"k1", "k2"}
HookResults == {"ok", "false", "raise"}
Slots == 1..MaxInst

\* A dict over Keys: 0 stands for "key not in the dict".
EmptyConfig == [k \in Keys |-> 0]

\* The content of <plugin>/config.json as json.load returns it; readable = FALSE
\* is a missing or malformed file (load_plugin_metadata returns None).
NoneMeta == [readable |-> FALSE, has_config |-> FALSE, config |-> EmptyConfig]

Descriptor(v) == [readable |-> TRUE, has_config |-> TRUE,
                  config |-> [k \in Keys |-> IF k = "k1" THEN v ELSE 0]]

DescriptorChoices == {NoneMeta} \cup {Descriptor(v) : v \in 1..MaxVal}

\* The dicts a caller passes to update_plugin_config: a new value for the
\* key of the descriptor's config, or a key the descriptor does not have.
ConfigPatches == {[k \in Keys |-> IF k = "k1" THEN MaxVal ELSE 0],
                  [k \in Keys |-> IF k = "k2" THEN 1 ELSE 0]}

\* The patch instead of the merged dict.
DictReplace(d, patch) == patch

\* dict.update(patch).
DictUpdate(d, patch) == [k \in Keys |-> IF patch[k] # 0 THEN patch[k] ELSE d[k]]

\* What a write leaves in the entry-point module: the number of concrete
\* PluginBase subclasses that dir(module) shows.  ("missing": no such file.)
MainChoices == {"none", "one", "many"}

FreeInst == [plugin |-> "", is_enabled |-> FALSE, config |-> EmptyConfig,
             metadata |-> NoneMeta, life |-> "free"]

IdleTask == [top |-> "idle", sub |-> "", pc |-> "idle", id |-> "", inst |-> 0,
             was_enabled |-> FALSE, success |-> FALSE, ret |-> FALSE,
             saw_enabled |-> FALSE, hooks |-> <<>>, last |-> "", call |-> 0,
             rivals |-> {}]

VARIABLES
    installed,       \* the plugin directories there are (discover_plugins)
    plugins,         \* PluginManager.plugins: identifier -> object (0: no key)
    plugin_classes,  \* the keys of PluginManager.plugin_classes
    inst,            \* the plugin objects
    descFile,        \* <plugin>/config.json on disk
    mainFile,        \* <plugin>/main.py on disk
    task,            \* the coroutine of each caller and of the watcher thread
    now,             \* time.time(), whole seconds
    last_reload,     \* ConfigFileHandler.last_reload (-1: no key)
    event_queue,     \* the observer's queue of file events
    handled,         \* the events on_modified has been given (history)
    ninputs,         \* the calls and file writes made so far
    returned         \* the task whose call returned in the last step, or ""

vars == <<installed, plugins, plugin_classes, inst, descFile, mainFile, task,
          now, last_reload, event_queue, handled, ninputs, returned>>

\* ------------------------------------------------------------------ helpers

\* PluginBase.__init__ that starts the object enabled.
NewInstance_enabled(id, metadata) ==
    [plugin |-> id, is_enabled |-> TRUE,
     config |-> IF metadata.has_config THEN metadata.config ELSE EmptyConfig,
     metadata |-> metadata, life |-> "constructed"]

\* PluginBase.__init__ with the arguments load_plugin passes (lines 163-167).
NewInstance(id, metadata) ==
    [plugin |-> id, is_enabled |-> FALSE,
     config |-> IF metadata.has_config THEN metadata.config ELSE EmptyConfig,
     metadata |-> metadata, life |-> "constructed"]

\* PluginManager.load_plugin_metadata.
load_plugin_metadata(id) == descFile[id]

\* The part of the state one segment of task p reads and writes: the
\* registry's maps, the objects, p's own frame (t), and the objects the other
\* tasks hold in a local variable (refs).
Bundle(p) ==
    [plugins |-> plugins, plugin_classes |-> plugin_classes, inst |-> inst,
     t |-> task[p], refs |-> {task[q].inst : q \in Procs \ {p}},
     stuck |-> FALSE]

\* An object nothing refers to any more (Python frees it), or a slot never used.
Collectable(S, i) ==
    /\ S.inst[i].life \in {"free", "failed", "unloaded"}
    /\ i \notin S.refs
    /\ \A id \in Plugins : S.plugins[id] # i

FreeSlots(S) == {i \in Slots : Collectable(S, i)}

MinOf(set) == CHOOSE i \in set : \A j \in set : i <= j

\* The operation returns r to its caller.
Done(S, r) == [S EXCEPT !.t.pc = "done", !.t.sub = "", !.t.ret = r]

\* `await plugin.<hook>()` inside the method `sub`; hooks lists the hooks the
\* call has invoked.
Suspend(S, sub, hook) ==
    [S EXCEPT !.t.sub = sub, !.t.pc = hook,
              !.t.hooks = Append(@, <<sub, hook>>)]

\* ------------------------------------------------------------------ enable_plugin

\* enable_plugin returns r; inside reload_plugin its result is dropped
\* (line 107) and reload_plugin returns success (line 109).
FinishEnable(S, r) == Done(S, IF S.t.top = "reload" THEN S.t.success ELSE r)

\* enable_plugin without the is_enabled test of lines 207-209.
enable_plugin_no_check(S) ==
    LET id == S.t.id
        i == S.plugins[id]
    IN  IF i = 0 THEN FinishEnable(S, FALSE)
        ELSE Suspend([S EXCEPT !.t.inst = i], "enable", "on_enable")

\* enable_plugin up to `await plugin.on_enable()` (lines 200-212).
enable_plugin(S) ==
    LET id == S.t.id
        i == S.plugins[id]
    IN  IF i = 0 THEN FinishEnable(S, FALSE)
        ELSE IF S.inst[i].is_enabled THEN FinishEnable(S, FALSE)
        ELSE Suspend([S EXCEPT !.t.inst = i], "enable", "on_enable")

\* enable_plugin after on_enable without the except clause of lines 216-218:
\* the exception of the hook leaves the method.
enable_after_on_enable_no_except(S, o) ==
    IF o = "raise" THEN [S EXCEPT !.t.pc = "raised", !.t.sub = ""]
    ELSE IF o = "ok"
         THEN FinishEnable([S EXCEPT !.inst[S.t.inst].is_enabled = TRUE], TRUE)
         ELSE FinishEnable(S, TRUE)

\* enable_plugin after on_enable (lines 212-218).  PluginBase.on_enable sets
\* is_enabled (plugin_base.py 55-58); a hook that returns False or raises has
\* not reached it.  The value the hook returns is not looked at.
enable_after_on_enable(S, o) ==
    IF o = "raise" THEN FinishEnable(S, FALSE)
    ELSE IF o = "ok"
         THEN FinishEnable([S EXCEPT !.inst[S.t.inst].is_enabled = TRUE], TRUE)
         ELSE FinishEnable(S, TRUE)

\* ------------------------------------------------------------------ disable_plugin

\* disable_plugin up to `await plugin.on_disable()` (lines 220-232).
disable_plugin(S) ==
    LET id == S.t.id
        i == S.plugins[id]
    IN  IF i = 0 THEN Done(S, FALSE)
        ELSE IF ~S.inst[i].is_enabled THEN Done(S, FALSE)
        ELSE Suspend([S EXCEPT !.t.inst = i], "disable", "on_disable")

\* disable_plugin after on_disable (lines 232-238).
disable_after_on_disable(S, o) ==
    IF o = "raise" THEN Done(S, FALSE)
    ELSE IF o = "ok"
         THEN Done([S EXCEPT !.inst[S.t.inst].is_enabled = FALSE], TRUE)
         ELSE Done(S, TRUE)

\* ------------------------------------------------------------------ load_plugin

\* load_plugin returns r; inside reload_plugin (lines 105-109) the result is
\* kept in success and enable_plugin follows when the plugin was enabled.
FinishLoad(S, r) ==
    IF S.t.top = "reload"
    THEN LET R == [S EXCEPT !.t.success = r]
         IN  IF r /\ S.t.was_enabled THEN enable_plugin(R) ELSE Done(R, r)
    ELSE Done(S, r)

\* load_plugin without the test of lines 120-122.
load_plugin_no_check(S) ==
    LET id == S.t.id
        metadata == load_plugin_metadata(id)
    IN  IF ~metadata.readable THEN FinishLoad(S, FALSE)
        ELSE IF mainFile[id] = "missing" THEN FinishLoad(S, FALSE)
        ELSE IF mainFile[id] = "none" THEN FinishLoad(S, FALSE)
        ELSE IF FreeSlots(S) = {} THEN [S EXCEPT !.stuck = TRUE]
        ELSE LET i == MinOf(FreeSlots(S))
             IN  Suspend([S EXCEPT !.inst[i] = NewInstance(id, metadata),
                                   !.t.inst = i],
                         "load", "on_load")

\* load_plugin up to `await plugin_instance.on_load()` (lines 117-168).  With
\* several subclasses in the module the loop takes the first one (line 157).
load_plugin(S) ==
    LET id == S.t.id
        metadata == load_plugin_metadata(id)
    IN  IF S.plugins[id] # 0 THEN FinishLoad(S, FALSE)
        ELSE IF ~metadata.readable THEN FinishLoad(S, FALSE)
        ELSE IF mainFile[id] = "missing" THEN FinishLoad(S, FALSE)
        ELSE IF mainFile[id] = "none" THEN FinishLoad(S, FALSE)
        ELSE IF FreeSlots(S) = {} THEN [S EXCEPT !.stuck = TRUE]
        ELSE LET i == MinOf(FreeSlots(S))
             IN  Suspend([S EXCEPT !.inst[i] = NewInstance(id, metadata),
                                   !.t.inst = i],
                         "load", "on_load")

\* load_plugin after on_load (lines 168-177): the object is registered
\* whatever on_load returned; an exception drops it.
load_after_on_load(S, o) ==
    LET id == S.t.id
        i == S.t.inst
    IN  IF o = "raise"
        THEN FinishLoad([S EXCEPT !.inst[i].life = "failed"], FALSE)
        ELSE FinishLoad([S EXCEPT !.plugins[id] = i,
                                  !.plugin_classes = @ \cup {id},
                                  !.inst[i].life = "loaded"], TRUE)

\* ------------------------------------------------------------------ unload_plugin

\* unload_plugin returns r; inside reload_plugin (lines 102-105) the result
\* is dropped and load_plugin follows.
FinishUnload(S, r) ==
    IF S.t.top = "reload" THEN load_plugin(S) ELSE Done(S, r)

\* unload_plugin without the is_enabled test of line 187: on_unload at once.
unload_plugin_no_disable(S) ==
    LET id == S.t.id
        i == S.plugins[id]
    IN  IF i = 0 THEN FinishUnload(S, FALSE)
        ELSE Suspend([S EXCEPT !.t.inst = i,
                               !.t.saw_enabled = S.inst[i].is_enabled],
                     "unload", "on_unload")

\* unload_plugin up to its first hook (lines 179-189).
unload_plugin(S) ==
    LET id == S.t.id
        i == S.plugins[id]
    IN  IF i = 0 THEN FinishUnload(S, FALSE)
        ELSE LET R == [S EXCEPT !.t.inst = i,
                                !.t.saw_enabled = S.inst[i].is_enabled]
             IN  IF S.inst[i].is_enabled
                 THEN Suspend(R, "unload", "on_disable")
                 ELSE Suspend(R, "unload", "on_unload")

\* unload_plugin after on_disable (lines 188-189, 196-198).
unload_after_on_disable(S, o) ==
    IF o = "raise" THEN FinishUnload(S, FALSE)
    ELSE Suspend(IF o = "ok"
                 THEN [S EXCEPT !.inst[S.t.inst].is_enabled = FALSE]
                 ELSE S,
                 "unload", "on_unload")

\* unload_plugin after on_unload that empties both maps instead of deleting
\* the plugin's keys.
unload_after_on_unload_clear(S, o) ==
    LET R == [S EXCEPT !.inst[S.t.inst].life = "unloaded"]
    IN  IF o = "raise" THEN FinishUnload(S, FALSE)
        ELSE FinishUnload([R EXCEPT !.plugins = [id \in Plugins |-> 0],
                                    !.plugin_classes = {}], TRUE)

\* unload_plugin after on_unload (lines 189-198): the two del statements
\* raise KeyError when the key is gone.
unload_after_on_unload(S, o) ==
    LET id == S.t.id
        R == [S EXCEPT !.inst[S.t.inst].life = "unloaded"]
    IN  IF o = "raise" THEN FinishUnload(S, FALSE)
        ELSE IF R.plugins[id] = 0 THEN FinishUnload(R, FALSE)
        ELSE IF id \notin R.plugin_classes
             THEN FinishUnload([R EXCEPT !.plugins[id] = 0], FALSE)
        ELSE FinishUnload([R EXCEPT !.plugins[id] = 0,
                                    !.plugin_classes = @ \ {id}], TRUE)

\* ------------------------------------------------------------------ reload_plugin

\* reload_plugin that keeps the object and reports success.
reload_plugin_in_place(S) ==
    LET id == S.t.id
        i == S.plugins[id]
    IN  IF i # 0
        THEN Done([S EXCEPT !.t.was_enabled = S.inst[i].is_enabled,
                            !.t.success = TRUE], TRUE)
        ELSE Done(S, FALSE)

\* reload_plugin without the test of line 100: a plugin that is not loaded
\* is loaded.
reload_plugin_loading(S) ==
    LET id == S.t.id
        i == S.plugins[id]
    IN  IF i # 0
        THEN unload_plugin([S EXCEPT !.t.was_enabled = S.inst[i].is_enabled])
        ELSE load_plugin(S)

\* reload_plugin up to the first hook of its unload_plugin (lines 94-111).
reload_plugin(S) ==
    LET id == S.t.id
        i == S.plugins[id]
    IN  IF i # 0
        THEN unload_plugin([S EXCEPT !.t.was_enabled = S.inst[i].is_enabled])
        ELSE Done(S, FALSE)

\* ------------------------------------------------------------------ update_plugin_config

\* PluginBase.update_config (plugin_base.py 171-173) on object i.  The config
\* the object was constructed with is the dict metadata["config"] itself
\* (plugin_manager.py line 166), so the update shows in both.
update_config(S, i, patch) ==
    [S EXCEPT !.inst[i].config = DictUpdate(@, patch),
              !.inst[i].metadata.config =
                  IF S.inst[i].metadata.has_config
                  THEN DictUpdate(@, patch) ELSE @]

\* update_plugin_config that reports success for a plugin it does not have.
update_plugin_config_accepting(S, patch) ==
    LET id == S.t.id
        i == S.plugins[id]
    IN  IF i = 0 THEN Done(S, TRUE)
        ELSE Done(update_config([S EXCEPT !.t.inst = i], i, patch), TRUE)

\* update_plugin_config (lines 258-270): not a coroutine, no hook.
update_plugin_config(S, patch) ==
    LET id == S.t.id
        i == S.plugins[id]
    IN  IF i = 0 THEN Done(S, FALSE)
        ELSE Done(update_config([S EXCEPT !.t.inst = i], i, patch), TRUE)

\* ------------------------------------------------------------------ actions

\* The segment's result becomes the state; objects nothing refers to are freed.
Commit(p, S) ==
    /\ ~S.stuck
    /\ plugins' = S.plugins
    /\ plugin_classes' = S.plugin_classes
    /\ inst' = [i \in Slots |->
                  IF Collectable(S, i) /\ i # S.t.inst THEN FreeInst
                  ELSE S.inst[i]]
    /\ task' = [task EXCEPT ![p] = S.t]
    /\ returned' = IF S.t.pc = "done" THEN p ELSE ""

\* A task that is not inside a call.
Free(p) == task[p].pc \in {"idle", "done"}

\* The frame of a call of method op on plugin id.  call numbers the calls of
\* load_plugin; rivals: the calls that are inside on_load of a load_plugin
\* for the same identifier at this moment.  The frame of the task's last
\* call, with its result, is kept until the task makes the next one.
Frame(p, op, id) ==
    [IdleTask EXCEPT !.top = op, !.id = id,
        !.call = IF op = "load" THEN ninputs + 1 ELSE 0,
        !.rivals = IF op = "load"
                   THEN {task[q].call : q \in
                            {q \in Procs \ {p} : /\ task[q].sub = "load"
                                                  /\ task[q].pc = "on_load"
                                                  /\ task[q].id = id}}
                   ELSE {}]

\* An external caller (main.py 87-126) calls a lifecycle method.  The callers
\* are interchangeable request tasks: c2 is used only while c1 is busy.
CallGuard(p) ==
    /\ Free(p)
    /\ p = "c1" \/ ~Free("c1")
    /\ ninputs < MaxInputs
    /\ ninputs' = ninputs + 1
    /\ UNCHANGED <<installed, descFile, mainFile, now, last_reload,
                   event_queue, handled>>

Load(p, id) ==
    /\ CallGuard(p)
    /\ Commit(p, load_plugin([Bundle(p) EXCEPT !.t = Frame(p, "load", id)]))

Unload(p, id) ==
    /\ CallGuard(p)
    /\ Commit(p, unload_plugin([Bundle(p) EXCEPT !.t = Frame(p, "unload", id)]))

Enable(p, id) ==
    /\ CallGuard(p)
    /\ Commit(p, enable_plugin([Bundle(p) EXCEPT !.t = Frame(p, "enable", id)]))

Disable(p, id) ==
    /\ CallGuard(p)
    /\ Commit(p, disable_plugin([Bundle(p) EXCEPT !.t = Frame(p, "disable", id)]))

UpdateConfig(p, id, patch) ==
    /\ CallGuard(p)
    /\ Commit(p, update_plugin_config(
                     [Bundle(p) EXCEPT !.t = Frame(p, "update_config", id)],
                     patch))

\* A caller asks for get_plugin_status (main.py 83-85): it reads, and returns
\* the dict get_plugin_status(id) of this state.
GetStatus(p, id) ==
    /\ CallGuard(p)
    /\ Commit(p, Done([Bundle(p) EXCEPT !.t = Frame(p, "get_status", id)],
                      TRUE))

\* The hook task p waits in ends with outcome o (kept in last), and the
\* method goes on.
AfterHook(S, o) ==
    LET R == [S EXCEPT !.t.last = o]
    IN  CASE S.t.pc = "on_load" -> load_after_on_load(R, o)
          [] S.t.pc = "on_enable" -> enable_after_on_enable(R, o)
          [] S.t.pc = "on_unload" -> unload_after_on_unload(R, o)
          [] S.t.pc = "on_disable" /\ S.t.sub = "unload" ->
                unload_after_on_disable(R, o)
          [] S.t.pc = "on_disable" /\ S.t.sub = "disable" ->
                disable_after_on_disable(R, o)

HookReturn(p, o) ==
    /\ task[p].pc \in {"on_load", "on_enable", "on_disable", "on_unload"}
    /\ Commit(p, AfterHook(Bundle(p), o))
    /\ UNCHANGED <<installed, descFile, mainFile, now, last_reload,
                   event_queue, handled, ninputs>>

\* ------------------------------------------------------------------ files and the watcher

\* A modified event; during: the observer thread is inside a reload of the
\* same plugin when the event is detected.
Event(id, file) ==
    [plugin |-> id, file |-> file, at |-> now,
     during |-> task[Watcher].pc \notin {"idle", "done"}
                   /\ task[Watcher].id = id]

\* Something writes <id>/config.json; the observer queues a modified event.
ConfigWritten(id, d) ==
    /\ ninputs' = ninputs + 1
    /\ descFile' = [descFile EXCEPT ![id] = d]
    /\ event_queue' = Append(event_queue, Event(id, "config.json"))
    /\ returned' = ""
    /\ UNCHANGED <<installed, plugins, plugin_classes, inst, mainFile, task,
                   now, last_reload, handled>>

WriteConfig(id, d) ==
    /\ ninputs < MaxInputs
    /\ ConfigWritten(id, d)

\* Something writes <id>/main.py.
WriteMain(id, m) ==
    /\ ninputs < MaxInputs
    /\ ninputs' = ninputs + 1
    /\ mainFile' = [mainFile EXCEPT ![id] = m]
    /\ event_queue' = Append(event_queue, Event(id, "main.py"))
    /\ returned' = ""
    /\ UNCHANGED <<installed, plugins, plugin_classes, inst, descFile, task,
                   now, last_reload, handled>>

\* What on_modified did with an event that arrived at e.at.
Handled(e, accepted) ==
    [plugin |-> e.plugin, file |-> e.file, at |-> e.at, during |-> e.during,
     accepted |-> accepted]

\* The debounce test of ConfigFileHandler.on_modified (lines 29-31).
Debounced(id) ==
    /\ last_reload[id] # -1
    /\ now - last_reload[id] < DebounceWindow

\* The observer thread takes the next event when on_modified has returned.
Dispatch ==
    /\ Free(Watcher)
    /\ event_queue # <<>>
    /\ event_queue' = Tail(event_queue)

\* on_modified, line 23: not a config.json.
WatcherIgnore ==
    /\ Dispatch
    /\ Head(event_queue).file # "config.json"
    /\ handled' = Append(handled, Handled(Head(event_queue), FALSE))
    /\ returned' = ""
    /\ UNCHANGED <<installed, plugins, plugin_classes, inst, descFile,
                   mainFile, task, now, last_reload, ninputs>>

\* on_modified, lines 30-31: inside the window of the last accepted event.
WatcherDebounce ==
    /\ Dispatch
    /\ Head(event_queue).file = "config.json"
    /\ Debounced(Head(event_queue).plugin)
    /\ handled' = Append(handled, Handled(Head(event_queue), FALSE))
    /\ returned' = ""
    /\ UNCHANGED <<installed, plugins, plugin_classes, inst, descFile,
                   mainFile, task, now, last_reload, ninputs>>

\* on_modified, lines 33-37: asyncio.run(reload_plugin(plugin_name)).
WatcherReload ==
    /\ Dispatch
    /\ Head(event_queue).file = "config.json"
    /\ ~Debounced(Head(event_queue).plugin)
    /\ last_reload' = [last_reload EXCEPT ![Head(event_queue).plugin] = now]
    /\ handled' = Append(handled, Handled(Head(event_queue), TRUE))
    /\ Commit(Watcher,
              reload_plugin([Bundle(Watcher) EXCEPT
                  !.t = Frame(Watcher, "reload", Head(event_queue).plugin)]))
    /\ UNCHANGED <<installed, descFile, mainFile, now, ninputs>>

\* A second passes.  The observer thread does not leave an event waiting
\* while it has nothing to do.  Time is only ever compared with the time of
\* an earlier event (line 30), so the seconds are counted from the first
\* event the observer handles.
Tick ==
    /\ now < MaxTime
    /\ ~(Free(Watcher) /\ event_queue # <<>>)
    /\ handled # <<>>
    /\ now' = now + 1
    /\ returned' = ""
    /\ UNCHANGED <<installed, plugins, plugin_classes, inst, descFile,
                   mainFile, task, last_reload, event_queue, handled,
                   ninputs>>

\* ------------------------------------------------------------------ specification

\* The object the start-up made for plugin id.
SlotOf(id) == IF id = "p1" THEN 1 ELSE 2

\* What the start-up (main.py lifespan, lines 20-49) leaves of a plugin:
\* load_plugin failed, or it succeeded and enable_plugin's on_enable did not
\* set is_enabled, or both succeeded.
StartStates == {"unloaded", "loaded", "enabled"}

\* The state when the application starts to serve, with the plugin
\* directories dirs: PluginManager.__init__ (lines 40-58), then lifespan's
\* load_plugin and enable_plugin of every discovered plugin.  A plugin
\* directory holds a descriptor and a module with one plugin class.
InitWith(dirs) ==
    /\ installed = dirs
    /\ descFile = [id \in Plugins |->
                     IF id \in dirs THEN Descriptor(1) ELSE NoneMeta]
    /\ mainFile = [id \in Plugins |-> IF id \in dirs THEN "one" ELSE "missing"]
    /\ \E st \in [Plugins -> StartStates] :
          /\ \A id \in Plugins \ dirs : st[id] = "unloaded"
          /\ plugins = [id \in Plugins |->
                          IF st[id] = "unloaded" THEN 0 ELSE SlotOf(id)]
          /\ plugin_classes = {id \in Plugins : st[id] # "unloaded"}
          /\ inst = [i \in Slots |->
                       IF \E id \in Plugins :
                             SlotOf(id) = i /\ st[id] # "unloaded"
                       THEN LET id == CHOOSE id \in Plugins : SlotOf(id) = i
                            IN  [NewInstance(id, descFile[id]) EXCEPT
                                    !.life = "loaded",
                                    !.is_enabled = (st[id] = "enabled")]
                       ELSE FreeInst]
    /\ task = [p \in Procs |-> IdleTask]
    /\ now = 0
    /\ last_reload = [id \in Plugins |-> -1]
    /\ event_queue = <<>>
    /\ handled = <<>>
    /\ ninputs = 0
    /\ returned = ""

\* One plugin directory.
Init == InitWith({"p1"})

Next ==
    \/ \E p \in Callers, id \in installed : Load(p, id)
    \/ \E p \in Callers, id \in installed : Unload(p, id)
    \/ \E p \in Callers, id \in installed : Enable(p, id)
    \/ \E p \in Callers, id \in installed : Disable(p, id)
    \/ \E p \in Callers, id \in installed, patch \in ConfigPatches :
          UpdateConfig(p, id, patch)
    \/ \E p \in Procs, o \in HookResults : HookReturn(p, o)
    \/ \E id \in installed, d \in DescriptorChoices : WriteConfig(id, d)
    \/ \E id \in installed, m \in MainChoices : WriteMain(id, m)
    \/ \E p \in Callers, id \in installed : GetStatus(p, id)
    \/ WatcherIgnore
    \/ WatcherDebounce
    \/ WatcherReload
    \/ Tick

Spec == Init /\ [][Next]_vars

\* ------------------------------------------------------------------ two plugins

\* Two plugin directories, one caller and the watcher: an operation on one
\* plugin runs while an operation on the other is suspended in a hook.
InitPair == InitWith(Plugins)

NextPair ==
    \/ \E id \in installed : Load("c1", id)
    \/ \E id \in installed : Unload("c1", id)
    \/ \E id \in installed : Enable("c1", id)
    \/ \E id \in installed : Disable("c1", id)
    \/ \E id \in installed, patch \in ConfigPatches :
          UpdateConfig("c1", id, patch)
    \/ \E p \in {"c1", Watcher}, o \in HookResults : HookReturn(p, o)
    \/ \E id \in installed, d \in DescriptorChoices : WriteConfig(id, d)
    \/ WatcherDebounce
    \/ WatcherReload

PairSpec == InitPair /\ [][NextPair]_vars

\* ------------------------------------------------------------------ the watcher alone

\* Two plugin directories, and nothing but writes of config.json and
\* plugin.json: no caller.
InitWatch == InitWith(Plugins)

\* A write of <id>/config.json in a run of at most MaxEvents events.
ConfigEvent(id, d) ==
    /\ Len(handled) + Len(event_queue) < MaxEvents
    /\ ConfigWritten(id, d)

\* A write of <id>/plugin.json, the file PluginBase.load_configs and
\* on_plugin_info_changed read (plugin_base.py 99-103, 156-158).  Nothing
\* the registry runs reads it.
PluginInfoEvent(id) ==
    /\ Len(handled) + Len(event_queue) < MaxEvents
    /\ ninputs' = ninputs + 1
    /\ event_queue' = Append(event_queue, Event(id, "plugin.json"))
    /\ returned' = ""
    /\ UNCHANGED <<installed, plugins, plugin_classes, inst, descFile,
                   mainFile, task, now, last_reload, handled>>

NextWatch ==
    \/ \E id \in installed, d \in DescriptorChoices : ConfigEvent(id, d)
    \/ \E id \in installed : PluginInfoEvent(id)
    \/ \E o \in HookResults : HookReturn(Watcher, o)
    \/ WatcherIgnore
    \/ WatcherDebounce
    \/ WatcherReload
    \/ Tick

WatchSpec == InitWatch /\ [][NextWatch]_vars

\* Plugin A, whose hooks may never return, and plugin B.
PluginA == "p1"
PluginB == "p2"

\* The observer thread takes every event it is free to take, and a hook of
\* plugin B returns; a hook of plugin A need not.
LiveSpec ==
    /\ WatchSpec
    /\ WF_vars(WatcherDebounce)
    /\ WF_vars(WatcherReload)
    /\ WF_vars(\E o \in HookResults :
                  task[Watcher].id = PluginB /\ HookReturn(Watcher, o))

\* ------------------------------------------------------------------ observers

\* get_plugin_status that reports every plugin as not enabled.
get_plugin_status_not_enabled(id) ==
    IF plugins[id] = 0
    THEN [status |-> "not_loaded", enabled |-> FALSE,
          metadata |-> load_plugin_metadata(id), config |-> EmptyConfig]
    ELSE [status |-> "loaded", enabled |-> FALSE,
          metadata |-> inst[plugins[id]].metadata,
          config |-> inst[plugins[id]].config]

\* PluginManager.get_plugin_status (lines 240-256).
get_plugin_status(id) ==
    IF plugins[id] = 0
    THEN [status |-> "not_loaded", enabled |-> FALSE,
          metadata |-> load_plugin_metadata(id), config |-> EmptyConfig]
    ELSE [status |-> "loaded", enabled |-> inst[plugins[id]].is_enabled,
          metadata |-> inst[plugins[id]].metadata,
          config |-> inst[plugins[id]].config]

\* The tasks inside a lifecycle operation on plugin id.
InProgress(id) == {p \in Procs : ~Free(p) /\ task[p].id = id}

\* The objects of plugin id that were registered and have not been unloaded.
Live(id) == {i \in Slots : inst[i].plugin = id /\ inst[i].life = "loaded"}

\* The hooks a call invoked from inside unload_plugin.
UnloadHooks(t) == SelectSeq(t.hooks, LAMBDA h : h[1] = "unload")

\* Task p's call of method op has just returned.
Returned(p, op) == returned = p /\ task[p].top = op

\* reload_plugin found the plugin loaded (line 100) and went through
\* unload_plugin and load_plugin.
Reloaded(p) == Returned(p, "reload") /\ task[p].hooks # <<>>

\* ------------------------------------------------------------------ claims

\* C1: for every plugin identifier at most one lifecycle operation is in
\* progress at any time, also while a hook of it is suspended.
C1_OneOperationPerIdentifier ==
    \A id \in Plugins : Cardinality(InProgress(id)) <= 1

\* C2: of two load calls for one identifier, the second started while the
\* first was suspended in on_load and neither on_load raising, exactly one
\* returns success and on_load has run on exactly one object.
C2_ConcurrentLoadsOneSucceeds ==
    \A p, q \in Procs :
        (/\ p # q
         /\ task[p].top = "load" /\ task[p].pc = "done"
         /\ task[q].top = "load" /\ task[q].pc = "done"
         /\ task[p].id = task[q].id
         /\ task[p].call \in task[q].rivals
         /\ task[p].last # "raise" /\ task[q].last # "raise")
        => /\ task[p].ret # task[q].ret
           /\ (task[p].hooks = <<>>) # (task[q].hooks = <<>>)

\* C3: in every reachable state at most one live plugin object exists per
\* identifier.
C3_OneLiveInstancePerIdentifier ==
    \A id \in Plugins : Cardinality(Live(id)) <= 1

\* C4: when a reload whose load step succeeded returns, the plugin is loaded
\* with the is_enabled it had before the reload.
C4_ReloadPreservesEnablement ==
    \A p \in Procs :
        (Reloaded(p) /\ task[p].success)
        => /\ plugins[task[p].id] # 0
           /\ inst[plugins[task[p].id]].is_enabled = task[p].was_enabled

\* C5: when a reload whose load step failed returns, no record of the plugin
\* exists and the reload reports failure.
C5_FailedReloadLeavesUnloaded ==
    \A p \in Procs :
        (Reloaded(p) /\ ~task[p].success)
        => /\ plugins[task[p].id] = 0
           /\ ~task[p].ret

\* C6: when on_load returned false or raised, load returns failure and
\* get_status reports the plugin as not loaded.
C6_FailedOnLoadCreatesNoRecord ==
    \A p \in Procs :
        (/\ Returned(p, "load")
         /\ task[p].hooks # <<>>
         /\ task[p].last \in {"false", "raise"})
        => /\ ~task[p].ret
           /\ get_plugin_status(task[p].id).status = "not_loaded"

\* C7: when unload of a plugin that had a record returns, the record is
\* gone, whatever on_disable and on_unload did.
C7_UnloadDiscardsRecord ==
    \A p \in Procs :
        (Returned(p, "unload") /\ task[p].hooks # <<>>)
        => plugins[task[p].id] = 0

\* C8: unload_plugin on an enabled plugin invokes on_disable once and first,
\* and on_unload only after on_disable has returned; on a plugin that is not
\* enabled it invokes on_unload alone.  A call that returns success has run
\* the whole sequence.
C8_DisableBeforeUnload ==
    \A p \in Procs :
        LET t == task[p]
            U == UnloadHooks(t)
        IN  /\ U # <<>> /\ t.saw_enabled =>
                 U \in {<<<<"unload", "on_disable">>>>,
                        <<<<"unload", "on_disable">>, <<"unload", "on_unload">>>>}
            /\ U # <<>> /\ ~t.saw_enabled => U = <<<<"unload", "on_unload">>>>
            /\ t.top = "unload" /\ t.pc = "done" /\ t.ret =>
                 Len(U) = IF t.saw_enabled THEN 2 ELSE 1

\* C8: an unload of an enabled plugin has returned success.
C8_Witness ==
    \E p \in Procs :
        /\ Returned(p, "unload")
        /\ task[p].saw_enabled
        /\ task[p].ret
        /\ Len(UnloadHooks(task[p])) = 2

\* C9: of two modification events of one plugin's config.json that arrive
\* less than a second apart, the first causing a reload, the second causes
\* none.
C9_SecondEventSuppressed ==
    \A i, j \in DOMAIN handled :
        (/\ i < j
         /\ handled[i].plugin = handled[j].plugin
         /\ handled[i].file = "config.json"
         /\ handled[j].file = "config.json"
         /\ handled[j].at - handled[i].at < DebounceWindow
         /\ handled[i].accepted)
        => ~handled[j].accepted

\* C10: config.json of an enabled, loaded plugin is written twice within the
\* window and one reload results; when it has succeeded and both events are
\* handled, the plugin's config is the one the second write left in the file.
C10_ReactionSeesFinalContents ==
    LET n == Len(handled)
    IN  (/\ n >= 2
         /\ event_queue = <<>>
         /\ handled[n - 1].plugin = handled[n].plugin
         /\ handled[n - 1].file = "config.json"
         /\ handled[n].file = "config.json"
         /\ handled[n].at - handled[n - 1].at < DebounceWindow
         /\ handled[n - 1].accepted
         /\ ~handled[n].accepted
         /\ task[Watcher].pc = "done"
         /\ task[Watcher].was_enabled
         /\ task[Watcher].ret
         /\ plugins[handled[n].plugin] # 0
         /\ descFile[handled[n].plugin].readable)
        => inst[plugins[handled[n].plugin]].config
              = descFile[handled[n].plugin].config

\* A file event of plugin id waits in the observer's queue, or the observer
\* thread is inside the reload it caused.
PendingFor(id) ==
    \/ \E i \in DOMAIN event_queue : event_queue[i].plugin = id
    \/ ~Free(Watcher) /\ task[Watcher].id = id

\* The observer thread waits in a hook of plugin id.
InHookOf(id) == ~Free(Watcher) /\ task[Watcher].id = id

\* What get_plugin_status tells of plugin id, in the words of the state machine.
StateOf(id) ==
    IF plugins[id] = 0 THEN "Unloaded"
    ELSE IF inst[plugins[id]].is_enabled THEN "Enabled" ELSE "Loaded"

\* This step is the return of `hook`, awaited inside method sub for plugin id.
HookStep(id, sub, hook) ==
    \E p \in Procs :
        /\ task[p].id = id /\ task[p].sub = sub /\ task[p].pc = hook
        /\ task'[p] # task[p]

\* C11: a config.json event detected while a reload of its plugin is in
\* flight, and at least a window after every earlier event of that plugin, is
\* not dropped: it causes a reload once the reload in flight has completed;
\* events are handled in the order they were detected.
C11_QueuedEventApplied ==
    \A j \in DOMAIN handled :
        (/\ handled[j].during
         /\ \A i \in 1..(j - 1) :
               handled[i].plugin = handled[j].plugin
               => handled[j].at - handled[i].at >= DebounceWindow)
        => /\ handled[j].accepted
           /\ \A i \in 1..(j - 1) : handled[i].at <= handled[j].at

\* C12: no lifecycle operation and no plugin hook runs in the observer
\* thread: every operation is executed by a task of the application's one
\* event loop.
C12_NoOperationInWatcherThread ==
    \A p \in Procs : task[p].top # "idle" => p \in Callers

\* C13: when a hook of plugin A never returns, every file event of another
\* plugin B is still handled and the reaction to it completes.
C13_OtherPluginProgresses ==
    <>[]InHookOf(PluginA) => (PendingFor(PluginB) ~> ~PendingFor(PluginB))

\* C14: when on_enable returned false or raised, enable_plugin returns
\* failure and the plugin is loaded with is_enabled false.
C14_FailedOnEnableFailsEnable ==
    \A p \in Procs :
        (/\ Returned(p, "enable")
         /\ task[p].hooks # <<>>
         /\ task[p].last \in {"false", "raise"})
        => /\ ~task[p].ret
           /\ StateOf(task[p].id) = "Loaded"

\* C15: when on_disable returned false or raised, disable_plugin returns
\* failure and the plugin is loaded with is_enabled true.
C15_FailedOnDisableFailsDisable ==
    \A p \in Procs :
        (/\ Returned(p, "disable")
         /\ task[p].hooks # <<>>
         /\ task[p].last \in {"false", "raise"})
        => /\ ~task[p].ret
           /\ StateOf(task[p].id) = "Enabled"

\* C16: load_plugin for an identifier that has a record returns failure at
\* once: it invokes no hook, constructs no object, and leaves the registry's
\* maps and the registered object (is_enabled, config, metadata) as they were.
\* So the second of two loads in sequence returns false.
C16_LoadOfLoadedRejected ==
    [][\A p \in Callers, id \in Plugins :
          (Load(p, id) /\ plugins[id] # 0)
          => /\ task'[p].pc = "done" /\ ~task'[p].ret
             /\ task'[p].hooks = <<>>
             /\ plugins' = plugins /\ plugin_classes' = plugin_classes
             /\ inst'[plugins[id]] = inst[plugins[id]]
             /\ \A i \in Slots :
                   inst'[i].life = "constructed" => inst'[i] = inst[i]]_vars

\* C16: a load of a loaded plugin, whose files are in order, has returned
\* failure without a hook.
C16_Witness ==
    \E p \in Callers :
        /\ Returned(p, "load")
        /\ ~task[p].ret
        /\ task[p].hooks = <<>>
        /\ plugins[task[p].id] # 0
        /\ descFile[task[p].id].readable
        /\ mainFile[task[p].id] = "one"

\* C17: enable_plugin of a plugin with is_enabled true, and disable_plugin of
\* a loaded plugin with is_enabled false, return failure at once, invoke no
\* hook and leave the registry and the object as they were.
C17_InvalidTransitionRejected ==
    [][\A p \in Callers, id \in Plugins :
          (/\ plugins[id] # 0
           /\ \/ Enable(p, id) /\ inst[plugins[id]].is_enabled
              \/ Disable(p, id) /\ ~inst[plugins[id]].is_enabled)
          => /\ task'[p].pc = "done" /\ ~task'[p].ret
             /\ task'[p].hooks = <<>>
             /\ plugins' = plugins /\ plugin_classes' = plugin_classes
             /\ inst'[plugins[id]] = inst[plugins[id]]]_vars

\* C17: an enable of an enabled plugin has returned failure without a hook.
C17_Witness ==
    \E p \in Callers :
        /\ Returned(p, "enable")
        /\ ~task[p].ret
        /\ task[p].hooks = <<>>
        /\ StateOf(task[p].id) = "Enabled"

\* C18: for an identifier without a record, unload_plugin, enable_plugin,
\* disable_plugin and update_plugin_config return failure at once, invoke no
\* hook and leave the registry's maps and every object as they were.
C18_NoRecordRejected ==
    [][\A p \in Callers, id \in Plugins :
          (/\ plugins[id] = 0
           /\ \/ Unload(p, id)
              \/ Enable(p, id)
              \/ Disable(p, id)
              \/ \E patch \in ConfigPatches : UpdateConfig(p, id, patch))
          => /\ task'[p].pc = "done" /\ ~task'[p].ret
             /\ task'[p].hooks = <<>>
             /\ plugins' = plugins /\ plugin_classes' = plugin_classes
             /\ \A i \in Slots : inst'[i] = inst[i] \/ inst'[i] = FreeInst]_vars

\* C18: an update_plugin_config of a plugin without a record has returned
\* failure.
C18_Witness ==
    \E p \in Callers :
        /\ Returned(p, "update_config")
        /\ ~task[p].ret
        /\ StateOf(task[p].id) = "Unloaded"

\* C19: the state of a plugin changes only along the state machine, each
\* transition made by its operation: Unloaded to Loaded by load_plugin,
\* Loaded to Enabled by enable_plugin, Enabled to Loaded by disable_plugin
\* (or the disabling inside unload_plugin), Loaded or Enabled to Unloaded by
\* unload_plugin; and is_enabled becomes true only on the object that is in
\* the registry.
C19_StateMachine ==
    [][/\ \A id \in Plugins :
             StateOf(id)' # StateOf(id) =>
                LET tr == <<StateOf(id), StateOf(id)'>>
                IN  \/ tr = <<"Unloaded", "Loaded">>
                         /\ HookStep(id, "load", "on_load")
                    \/ tr = <<"Loaded", "Enabled">>
                         /\ HookStep(id, "enable", "on_enable")
                    \/ tr = <<"Enabled", "Loaded">>
                         /\ \/ HookStep(id, "disable", "on_disable")
                            \/ HookStep(id, "unload", "on_disable")
                    \/ tr \in {<<"Loaded", "Unloaded">>,
                               <<"Enabled", "Unloaded">>}
                         /\ HookStep(id, "unload", "on_unload")
       /\ \A i \in Slots :
             (~inst[i].is_enabled /\ inst'[i].is_enabled)
             => plugins'[inst'[i].plugin] = i]_vars

\* C20: a lifecycle operation is either waiting for a hook or has returned
\* a boolean: the exception of a hook never leaves it.  A load, unload,
\* enable or disable whose last hook raised returns False, and a reload
\* returns what its load_plugin returned.
C20_NoExceptionEscapes ==
    \A p \in Procs :
        /\ task[p].pc \in {"idle", "done", "on_load", "on_enable",
                           "on_disable", "on_unload"}
        /\ task[p].pc = "done" => task[p].ret \in BOOLEAN
        /\ (task[p].pc = "done" /\ task[p].hooks # <<>>
              /\ task[p].last = "raise")
           => task[p].ret = (task[p].top = "reload" /\ task[p].success)

\* C20: an operation whose hook raised has returned.
C20_Witness ==
    \E p \in Procs :
        /\ returned = p
        /\ task[p].hooks # <<>>
        /\ task[p].last = "raise"
        /\ ~task[p].ret

\* The hooks of sequence h.
HookNames(h) == {h[k][2] : k \in DOMAIN h}

\* The objects are as they were, but for those Python has freed.
ObjectsKept == \A i \in Slots : inst'[i] = inst[i] \/ inst'[i] = FreeInst

\* C21: the reaction to a modification of config.json of a loaded plugin is
\* not a full reload: the observer's reaction invokes none of on_disable,
\* on_unload, on_load, on_enable, so the object and its is_enabled stay.
C21_ConfigChangeKeepsInstance ==
    HookNames(task[Watcher].hooks) \cap
        {"on_disable", "on_unload", "on_load", "on_enable"} = {}

\* C22: when the observer takes a modification event of plugin.json of a
\* loaded plugin, a reload of that plugin starts: its unload_plugin runs.
C22_DescriptorChangeReloads ==
    [][(/\ Dispatch
        /\ Head(event_queue).file = "plugin.json"
        /\ plugins[Head(event_queue).plugin] # 0)
       => /\ task'[Watcher].top = "reload"
          /\ task'[Watcher].id = Head(event_queue).plugin
          /\ task'[Watcher].hooks # <<>>]_vars

\* C23: update_plugin_config on a loaded plugin returns success; afterwards
\* the config maps every key of the patch to the patch's value and every
\* other key to its value before, and the registry, the object and its
\* is_enabled are the same.
C23_UpdateConfigMerges ==
    [][\A p \in Callers, id \in Plugins, patch \in ConfigPatches :
          (UpdateConfig(p, id, patch) /\ plugins[id] # 0)
          => LET i == plugins[id]
             IN  /\ task'[p].pc = "done" /\ task'[p].ret
                 /\ plugins' = plugins /\ plugin_classes' = plugin_classes
                 /\ inst'[i].is_enabled = inst[i].is_enabled
                 /\ inst'[i].life = inst[i].life
                 /\ \A k \in Keys :
                       inst'[i].config[k] =
                          IF patch[k] # 0 THEN patch[k]
                          ELSE inst[i].config[k]]_vars

\* C23: an update_plugin_config has added key k2 to a config that has k1.
C23_Witness ==
    \E p \in Callers :
        /\ Returned(p, "update_config")
        /\ task[p].ret
        /\ plugins[task[p].id] # 0
        /\ inst[plugins[task[p].id]].config["k1"] # 0
        /\ inst[plugins[task[p].id]].config["k2"] # 0

\* C24: get_plugin_status returns, changes nothing, and tells what the
\* registry holds: loaded, with the object's is_enabled, metadata and config,
\* when there is a record; not loaded and not enabled, with the descriptor
\* (None when it cannot be read) as metadata, when there is none.
C24_StatusConsistent ==
    [][\A p \in Callers, id \in Plugins :
          GetStatus(p, id)
          => /\ task'[p].pc = "done" /\ task'[p].ret
             /\ UNCHANGED <<plugins, plugin_classes, descFile, mainFile>>
             /\ ObjectsKept
             /\ LET r == get_plugin_status(id)
                    i == plugins[id]
                IN  IF i # 0
                    THEN /\ r.status = "loaded"
                         /\ r.enabled = inst[i].is_enabled
                         /\ r.metadata = inst[i].metadata
                         /\ r.config = inst[i].config
                    ELSE /\ r.status = "not_loaded"
                         /\ r.enabled = FALSE
                         /\ r.metadata = IF descFile[id].readable
                                         THEN descFile[id] ELSE NoneMeta]_vars

\* C24: get_plugin_status has been asked of an enabled plugin.
C24_Witness ==
    \E p \in Callers :
        /\ Returned(p, "get_status")
        /\ get_plugin_status(task[p].id).status = "loaded"
        /\ get_plugin_status(task[p].id).enabled

\* C25: load_plugin fails before on_load only when the plugin has a record,
\* the descriptor cannot be read or the module has no plugin class; when
\* on_load succeeds it returns True and the plugin is Loaded, with the new
\* object registered and not enabled.  enable_plugin whose on_enable
\* succeeds returns True with is_enabled true, which get_plugin_status
\* reports for as long as that object is the registered one.
C25_HappyPath ==
    \A p \in Procs :
        LET t == task[p]
        IN  /\ (Returned(p, "load") /\ t.hooks = <<>>)
               => \/ plugins[t.id] # 0
                  \/ ~descFile[t.id].readable
                  \/ mainFile[t.id] \in {"none", "missing"}
            /\ (Returned(p, "load") /\ t.hooks # <<>> /\ t.last = "ok")
               => /\ t.ret
                  /\ plugins[t.id] = t.inst
                  /\ StateOf(t.id) = "Loaded"
                  /\ get_plugin_status(t.id).status = "loaded"
                  /\ ~get_plugin_status(t.id).enabled
            /\ (Returned(p, "enable") /\ t.hooks # <<>> /\ t.last = "ok")
               => /\ t.ret
                  /\ inst[t.inst].is_enabled
                  /\ plugins[t.id] = t.inst
                     => get_plugin_status(t.id).enabled

\* C25: a load whose on_load succeeded has returned True.
C25_Witness ==
    \E p \in Callers :
        /\ Returned(p, "load")
        /\ task[p].last = "ok"
        /\ task[p].ret
        /\ StateOf(task[p].id) = "Loaded"

\* A step of an operation on plugin a: a call, the return of one of its
\* hooks, a write of its config.json, or the observer taking its event.
StepOn(a) ==
    \/ \E p \in Procs : Load(p, a) \/ Unload(p, a) \/ Enable(p, a) \/ Disable(p, a)
    \/ \E p \in Procs, patch \in ConfigPatches : UpdateConfig(p, a, patch)
    \/ \E p \in Procs, o \in HookResults : task[p].id = a /\ HookReturn(p, o)
    \/ \E d \in DescriptorChoices : WriteConfig(a, d)
    \/ Dispatch /\ Head(event_queue).plugin = a

\* C26: a step of an operation on plugin a leaves the record of every other
\* plugin b as it was: the key, the object, its is_enabled and its config.
C26_FrameAcrossIdentifiers ==
    [][\A a \in Plugins : \A b \in Plugins \ {a} :
          StepOn(a)
          => /\ plugins'[b] = plugins[b]
             /\ (b \in plugin_classes') = (b \in plugin_classes)
             /\ plugins[b] # 0 => inst'[plugins[b]] = inst[plugins[b]]]_vars

\* C26: an unload of plugin A has succeeded while plugin B is enabled.
C26_Witness ==
    \E p \in Procs :
        /\ Returned(p, "unload")
        /\ task[p].ret
        /\ task[p].id = PluginA
        /\ StateOf(PluginB) = "Enabled"

\* C27: load_plugin of a plugin whose module has several plugin classes, or
\* none, fails at once and creates no record.
C27_ExactlyOneImplementation ==
    [][\A p \in Callers, id \in Plugins :
          (Load(p, id) /\ mainFile[id] \in {"many", "none"})
          => /\ task'[p].pc = "done" /\ ~task'[p].ret
             /\ plugins' = plugins]_vars

\* C28: update_plugin_config leaves the metadata of the object, the
\* descriptor it was constructed with, as it was.
C28_UpdateConfigKeepsMetadata ==
    [][\A p \in Callers, id \in Plugins, patch \in ConfigPatches :
          (UpdateConfig(p, id, patch) /\ plugins[id] # 0)
          => inst'[plugins[id]].metadata = inst[plugins[id]].metadata]_vars

\* C29: the object a reload registers is a new one whose config is the
\* config of the descriptor the reload read: load_plugin constructs it from
\* the file as it is, nothing changes it up to its registration, and a
\* reload that returns success has gone through load_plugin's on_load.
\* What update_plugin_config did to the old object is not in it.
C29_ReloadResetsConfig ==
    [][LET w == task[Watcher]
           v == task'[Watcher]
       IN  /\ (v.top = "reload" /\ v.pc = "on_load" /\ w.pc # "on_load")
              => /\ inst'[v.inst].life = "constructed"
                 /\ inst'[v.inst].config = descFile[v.id].config
                 /\ plugins'[v.id] = 0
           /\ (w.top = "reload" /\ w.pc = "on_load" /\ v = w)
              => inst'[w.inst] = inst[w.inst]
           /\ (w.top = "reload" /\ w.pc = "on_load" /\ v # w
                 /\ v.last # "raise")
              => /\ plugins'[w.id] = w.inst
                 /\ inst'[w.inst].config = inst[w.inst].config
           /\ (returned' = Watcher /\ v.ret)
              => <<"load", "on_load">> \in
                    {v.hooks[k] : k \in DOMAIN v.hooks}]_vars

\* C29: a reload has succeeded after an update_plugin_config had added key
\* k2 to the old object; the registered object does not have it.
C29_Witness ==
    \E c \in Callers :
        /\ Returned(Watcher, "reload")
        /\ task[Watcher].ret
        /\ task[c].top = "update_config"
        /\ task[c].ret
        /\ task[c].id = task[Watcher].id
        /\ inst[task[c].inst].life = "unloaded"
        /\ inst[task[c].inst].config["k2"] # 0
        /\ plugins[task[c].id] # 0
        /\ inst[plugins[task[c].id]].config["k2"] = 0

\* C30: when the observer takes an event of a plugin that has no record,
\* nothing is loaded: the reload it may start returns False at once, no hook
\* is invoked, and the registry and the objects are as they were.
C30_ReloadOfUnloadedFails ==
    [][(Dispatch /\ plugins[Head(event_queue).plugin] = 0)
       => /\ task'[Watcher].pc \in {"idle", "done"}
          /\ task'[Watcher] # task[Watcher]
             => /\ ~task'[Watcher].ret
                /\ task'[Watcher].hooks = <<>>
          /\ plugins' = plugins /\ plugin_classes' = plugin_classes
          /\ ObjectsKept]_vars

\* C30: a reload of a plugin without a record has returned False.
C30_Witness ==
    /\ Returned(Watcher, "reload")
    /\ ~task[Watcher].ret
    /\ task[Watcher].hooks = <<>>
    /\ StateOf(task[Watcher].id) = "Unloaded"

\* C31: the window of a plugin is counted from its last accepted event only:
\* a config.json event that arrives at least a window after every accepted
\* earlier event of its plugin is accepted, whatever suppressed events and
\* events of other plugins came in between.
C31_WindowFromLastAccepted ==
    \A j \in DOMAIN handled :
        (/\ handled[j].file = "config.json"
         /\ \A i \in 1..(j - 1) :
               (/\ handled[i].plugin = handled[j].plugin
                /\ handled[i].accepted)
               => handled[j].at - handled[i].at >= DebounceWindow)
        => handled[j].accepted

====
